---- MODULE Spec2Model ----
(***************************************************************************)
(* Quantum Battleship: the two measurement engines (sonar ping, counting   *)
(* scan), the inverse Fourier sub-circuit builder, the execution of the    *)
(* circuits under unitary semantics, and the terminal UI's button          *)
(* handlers.                                                               *)
(*                                                                         *)
(* Amplitudes are exact: every gate of the two circuits has entries in     *)
(* Z[w]/sqrt(2)^k with w = exp(i*pi/4), so an amplitude is a 4-tuple of    *)
(* integers <<a0,a1,a2,a3>> standing for a0 + a1 w + a2 w^2 + a3 w^3.      *)
(* The positive real factor 1/sqrt(2) of every Hadamard is left out: it    *)
(* changes no amplitude's being zero or its phase, which is all that a     *)
(* measurement's set of possible outcomes depends on.                      *)
(***************************************************************************)
EXTENDS Integers, Sequences, FiniteSets, TLC

VARIABLES
    \* In SpecCalls, where several callers run engine calls at once, each of
    \* pc, fn, arg, qc and counts is a function of the caller: they are the
    \* call's local variables.
    pc,          \* position of the running engine call / builder / UI
    fn,          \* "ping" | "scan" | "iqft" | "none": the function running
    arg,         \* its argument: target_is_ship, targets or n_qubits
    qc,          \* the QuantumCircuit under construction [nq, nc, data]
    tqc,         \* transpiled_qc: the gate list handed to the simulator
    psi,         \* simulator state vector: basis index -> amplitude (support only)
    ip,          \* simulator's position in tqc
    memory,      \* the classical bits, clbit index -> 0/1
    counts,      \* list(counts.keys())[0]: the result string (sequence of "0"/"1")
    ret,         \* value returned by the call (or the exception raised)
    history,     \* completed calls <<[fn, arg, ret]>>, oldest first
    GAME_BOARD,  \* coord -> BOOLEAN
    disabled,    \* ids of the buttons with disabled = True
    classes,     \* button id -> css class set by set_classes
    label,       \* button id -> label
    log_lines,   \* number of lines written to the Log widget
    boot_check,  \* the four results on_mount logs (<<>> before it ran)
    engine_calls \* button id -> engine calls made by handlers for that button

vars == <<pc, fn, arg, qc, tqc, psi, ip, memory, counts, ret, history,
          GAME_BOARD, disabled, classes, label, log_lines, boot_check,
          engine_calls>>

engineVars == <<pc, fn, arg, qc, tqc, psi, ip, memory, counts, ret, history>>
uiVars == <<GAME_BOARD, disabled, classes, label, log_lines, boot_check,
            engine_calls>>

-----------------------------------------------------------------------------
(* Bounds of the model *)

\* engine calls made one after the other in a behaviour of Spec
MaxCalls == 2
\* longest target list handed to the counting scan in SpecLen
MaxTargetLen == 5
\* largest n for which iqft_gate(n) is built in SpecIqft
MaxN == 7
\* button presses handled in a behaviour of SpecUI
MaxPresses == 3

-----------------------------------------------------------------------------
(* Program constants *)

probe_qubit == 0
target_qubit == 1
n_counting_qubits == 3
n_target_qubits == 4
SHIP_COUNT == 4
ROWS == <<"A", "B", "C", "D">>
COLS == <<"1", "2", "3", "4">>

Range(s) == {s[k] : k \in DOMAIN s}

\* list(range(lo, hi))
PyRange(lo, hi) == [k \in 1..(IF hi > lo THEN hi - lo ELSE 0) |-> lo + k - 1]

counting_register == PyRange(0, n_counting_qubits)
target_register == PyRange(n_counting_qubits, n_counting_qubits + n_target_qubits)

-----------------------------------------------------------------------------
(* Exact amplitudes in Z[w], w = exp(i*pi/4), w^4 = -1 *)

Zero == <<0, 0, 0, 0>>
One == <<1, 0, 0, 0>>

AmpAdd(a, b) == <<a[1] + b[1], a[2] + b[2], a[3] + b[3], a[4] + b[4]>>
AmpSub(a, b) == <<a[1] - b[1], a[2] - b[2], a[3] - b[3], a[4] - b[4]>>
MulOmega(a) == <<-a[4], a[1], a[2], a[3]>>

RECURSIVE MulOmegaPow(_, _)
MulOmegaPow(a, k) == IF k = 0 THEN a ELSE MulOmegaPow(MulOmega(a), k - 1)

\* An angle is num*pi/den, kept exact.
Angle(num, den) == [num |-> num, den |-> den]
NoAngle == Angle(0, 1)

\* exp(i*angle) as a power of w; every angle the two circuits use is a
\* multiple of pi/4 (den divides 4).
OmegaExponent(angle) == (angle.num * (4 \div angle.den)) % 8

-----------------------------------------------------------------------------
(* Gate operations: one record shape for all of them *)

Op(gate, qubits, angle, clbit, def) ==
    [gate |-> gate, qubits |-> qubits, angle |-> angle, clbit |-> clbit, def |-> def]

XGate(q) == Op("x", <<q>>, NoAngle, -1, <<>>)
HGate(q) == Op("h", <<q>>, NoAngle, -1, <<>>)
CXGate(c, t) == Op("cx", <<c, t>>, NoAngle, -1, <<>>)
CPGate(angle, c, t) == Op("cp", <<c, t>>, angle, -1, <<>>)
SwapGate(a, b) == Op("swap", <<a, b>>, NoAngle, -1, <<>>)
Measure(q, c) == Op("measure", <<q>>, NoAngle, c, <<>>)
\* qc.barrier() spans every qubit of the circuit
Barrier(nq) == Op("barrier", [k \in 1..nq |-> k - 1], NoAngle, -1, <<>>)
\* qc.append(sub, qubits): one instruction whose definition is sub's gates
Composite(name, sub, qubits) == Op(name, qubits, NoAngle, -1, sub)

QuantumCircuit(nq, nc) == [nq |-> nq, nc |-> nc, data |-> <<>>]
AppendOp(circ, op) == [circ EXCEPT !.data = Append(@, op)]

-----------------------------------------------------------------------------
(* run_quantum_sonar_ping: the appends of lines 32-41, in order *)

\* the ping circuit without the closing Hadamard on the probe
PingStmtsNoFinalH(target_is_ship) ==
    (IF target_is_ship THEN <<XGate(target_qubit)>> ELSE <<>>)
    \o <<Barrier(2),
         HGate(probe_qubit),
         HGate(target_qubit),
         CXGate(probe_qubit, target_qubit),
         HGate(target_qubit),
         Barrier(2),
         Measure(probe_qubit, 0)>>

PingStmts(target_is_ship) ==
    (IF target_is_ship THEN <<XGate(target_qubit)>> ELSE <<>>)
    \o <<Barrier(2),
         HGate(probe_qubit),
         HGate(target_qubit),
         CXGate(probe_qubit, target_qubit),
         HGate(target_qubit),
         HGate(probe_qubit),
         Barrier(2),
         Measure(probe_qubit, 0)>>

-----------------------------------------------------------------------------
(* iqft_gate *)

\* the builder without its leading swaps
swap_qubits_none(n) == <<>>

\* for i in range(n // 2): qc.swap(i, n - i - 1)
swap_qubits(n) == [k \in 1..(n \div 2) |-> SwapGate(k - 1, n - (k - 1) - 1)]

\* angle = -np.pi / (2**(j - i))
IqftAngle(i, j) == Angle(-1, 2 ^ (j - i))

\* the inner loop with j counting upwards
RECURSIVE IqftInnerAscending(_, _)
IqftInnerAscending(i, j) ==
    IF j < i + 1 THEN <<>>
    ELSE IqftInnerAscending(i, j - 1) \o <<CPGate(IqftAngle(i, j), j, i)>>

\* for j in reversed(range(i + 1, n_qubits)): qc.cp(angle, j, i)
\* (the iterations from j downwards)
RECURSIVE IqftInner(_, _)
IqftInner(i, j) ==
    IF j < i + 1 THEN <<>>
    ELSE <<CPGate(IqftAngle(i, j), j, i)>> \o IqftInner(i, j - 1)

\* for i in reversed(range(n_qubits)): <inner loop>; qc.h(i)
\* (the iterations from i downwards)
RECURSIVE IqftOuter(_, _)
IqftOuter(i, n_qubits) ==
    IF i < 0 THEN <<>>
    ELSE IqftInner(i, n_qubits - 1) \o <<HGate(i)>> \o IqftOuter(i - 1, n_qubits)

iqft_gate(n_qubits) == swap_qubits(n_qubits) \o IqftOuter(n_qubits - 1, n_qubits)

-----------------------------------------------------------------------------
(* run_quantum_counting_scan: the appends of lines 97-126, by step *)

\* target_register[i] raises IndexError for a marked position beyond the register
ShipIndexError(targets) ==
    \E i \in DOMAIN targets : targets[i] /\ i > Len(target_register)

\* [target_register[i] for i, is_ship in enumerate(targets) if is_ship]
RECURSIVE ShipIndicesFrom(_, _)
ShipIndicesFrom(targets, i) ==
    IF i > Len(targets) THEN <<>>
    ELSE (IF targets[i] THEN <<target_register[i]>> ELSE <<>>)
         \o ShipIndicesFrom(targets, i + 1)

ship_indices(targets) == ShipIndicesFrom(targets, 1)

\* 1. for i in ship_indices: qc.x(i)
PrepareTargets(targets) ==
    [k \in 1..Len(ship_indices(targets)) |-> XGate(ship_indices(targets)[k])]

\* 2. qc.h(counting_register)
PrepareCounting == [k \in 1..Len(counting_register) |-> HGate(counting_register[k])]

base_phase == Angle(1, 4)

\* the power not reversed: power = c_idx
KickbackAngleNoReverse(c_idx) == Angle((2 ^ c_idx) * base_phase.num, base_phase.den)

\* power = n_counting_qubits - 1 - c_idx; angle = (2**power) * base_phase
KickbackAngle(c_idx) ==
    Angle((2 ^ (n_counting_qubits - 1 - c_idx)) * base_phase.num, base_phase.den)

\* a rotation for every target qubit, marked or not
KickbackInnerAll(c_idx, ships) ==
    [k \in 1..Len(target_register) |->
        CPGate(Angle((2 ^ (n_counting_qubits - 1 - c_idx)), 4), c_idx, target_register[k])]

\* for t_idx in ship_indices: qc.cp(angle, c_idx, t_idx)
KickbackInner(c_idx, ships) ==
    [k \in 1..Len(ships) |-> CPGate(KickbackAngle(c_idx), c_idx, ships[k])]

\* 3. for c_idx in counting_register: <inner loop>   (from position k on)
RECURSIVE KickbackFrom(_, _)
KickbackFrom(k, ships) ==
    IF k > Len(counting_register) THEN <<>>
    ELSE KickbackInner(counting_register[k], ships) \o KickbackFrom(k + 1, ships)

Kickback(targets) == KickbackFrom(1, ship_indices(targets))

\* 4. qc.barrier(); qc.append(iqft_gate(n_counting_qubits), counting_register);
\*    qc.barrier()
AppendIqft ==
    <<Barrier(n_counting_qubits + n_target_qubits),
      Composite("IQFT", iqft_gate(n_counting_qubits), counting_register),
      Barrier(n_counting_qubits + n_target_qubits)>>

\* qc.measure(counting_register, target_register)
MeasureIntoTargetIndices ==
    [k \in 1..Len(counting_register) |->
        Measure(counting_register[k], target_register[k])]

\* 5. qc.measure(counting_register, counting_register)
MeasureCounting ==
    [k \in 1..Len(counting_register) |->
        Measure(counting_register[k], counting_register[k])]

ScanStmts(targets) ==
    PrepareTargets(targets) \o PrepareCounting \o Kickback(targets)
    \o AppendIqft \o MeasureCounting

-----------------------------------------------------------------------------
(* transpile: the simulator's basis has no custom instruction, so a        *)
(* composite instruction is replaced by its definition on its qubits       *)

Remap(op, qubits) == [op EXCEPT !.qubits = [k \in DOMAIN @ |-> qubits[@[k] + 1]]]

RECURSIVE transpile(_)
transpile(data) ==
    IF data = <<>> THEN <<>>
    ELSE LET op == Head(data)
         IN  (IF op.def = <<>> THEN <<op>>
              ELSE [k \in DOMAIN op.def |-> Remap(op.def[k], op.qubits)])
             \o transpile(Tail(data))

-----------------------------------------------------------------------------
(* AerSimulator: unitary semantics on the support of the state vector.     *)
(* Basis state b is an integer whose binary digit q is qubit q.            *)

Bit(b, q) == (b \div (2 ^ q)) % 2
Flip(b, q) == IF Bit(b, q) = 0 THEN b + 2 ^ q ELSE b - 2 ^ q

Amp(state, b) == IF b \in DOMAIN state THEN state[b] ELSE Zero
Support(f) == LET S == {b \in DOMAIN f : f[b] # Zero} IN [b \in S |-> f[b]]

InitialState == [b \in {0} |-> One]

ApplyX(state, q) ==
    [b \in {Flip(a, q) : a \in DOMAIN state} |-> state[Flip(b, q)]]

\* |0> -> |0> + |1>,  |1> -> |0> - |1>
ApplyH(state, q) ==
    LET D == DOMAIN state \cup {Flip(a, q) : a \in DOMAIN state}
    IN  Support([b \in D |->
            IF Bit(b, q) = 0
            THEN AmpAdd(Amp(state, b), Amp(state, Flip(b, q)))
            ELSE AmpSub(Amp(state, Flip(b, q)), Amp(state, b))])

CXImage(b, c, t) == IF Bit(b, c) = 1 THEN Flip(b, t) ELSE b

ApplyCX(state, c, t) ==
    [b \in {CXImage(a, c, t) : a \in DOMAIN state} |-> state[CXImage(b, c, t)]]

\* diag(1, 1, 1, exp(i*angle))
ApplyCP(state, angle, c, t) ==
    [b \in DOMAIN state |->
        IF Bit(b, c) = 1 /\ Bit(b, t) = 1
        THEN MulOmegaPow(state[b], OmegaExponent(angle))
        ELSE state[b]]

SwapImage(b, q1, q2) ==
    IF Bit(b, q1) = Bit(b, q2) THEN b ELSE Flip(Flip(b, q1), q2)

ApplySwap(state, q1, q2) ==
    [b \in {SwapImage(a, q1, q2) : a \in DOMAIN state} |-> state[SwapImage(b, q1, q2)]]

ApplyGate(state, op) ==
    CASE op.gate = "x" -> ApplyX(state, op.qubits[1])
      [] op.gate = "h" -> ApplyH(state, op.qubits[1])
      [] op.gate = "cx" -> ApplyCX(state, op.qubits[1], op.qubits[2])
      [] op.gate = "cp" -> ApplyCP(state, op.angle, op.qubits[1], op.qubits[2])
      [] op.gate = "swap" -> ApplySwap(state, op.qubits[1], op.qubits[2])
      [] op.gate = "barrier" -> state

\* A measurement of qubit q can give r exactly when some basis state with
\* digit r has a nonzero amplitude; the state collapses onto those.
Outcomes(state, q) == {Bit(b, q) : b \in DOMAIN state}
Collapse(state, q, r) ==
    [b \in {a \in DOMAIN state : Bit(a, q) = r} |-> state[b]]

ZeroMemory(nc) == [c \in 0..(nc - 1) |-> 0]

\* The memories one shot of the gates ops[k..] can end with.
RECURSIVE RunFrom(_, _, _, _)
RunFrom(ops, k, state, mem) ==
    IF k > Len(ops) THEN {mem}
    ELSE IF ops[k].gate = "measure"
         THEN UNION {RunFrom(ops, k + 1, Collapse(state, ops[k].qubits[1], r),
                             [mem EXCEPT ![ops[k].clbit] = r])
                     : r \in Outcomes(state, ops[k].qubits[1])}
         ELSE RunFrom(ops, k + 1, ApplyGate(state, ops[k]), mem)

\* the key written in classical-bit order, bit 0 first
get_counts_bit0_first(mem, nc) == [p \in 1..nc |-> IF mem[p - 1] = 1 THEN "1" ELSE "0"]

\* result.get_counts(): the key is the memory written with classical bit 0
\* as its rightmost character
get_counts(mem, nc) == [p \in 1..nc |-> IF mem[nc - p] = 1 THEN "1" ELSE "0"]

-----------------------------------------------------------------------------
(* Decoding *)

Digit(ch) == IF ch = "1" THEN 1 ELSE 0

\* int(s, base)
RECURSIVE PyInt(_, _)
PyInt(s, base) ==
    IF s = <<>> THEN 0
    ELSE PyInt(SubSeq(s, 1, Len(s) - 1), base) * base + Digit(s[Len(s)])

\* s[::-1]
Reversed(s) == [k \in 1..Len(s) |-> s[Len(s) + 1 - k]]

\* measurement_outcome = int(list(counts.keys())[0])
DecodePing(key) == PyInt(key, 10)

\* integer_count = int(binary_count[::-1], 2)
DecodeScan(binary_count) == PyInt(Reversed(binary_count), 2)

-----------------------------------------------------------------------------
(* The two engine functions as a whole: the values one call can return *)

run_quantum_sonar_ping(target_is_ship) ==
    {DecodePing(get_counts(m, 1)) :
        m \in RunFrom(transpile(PingStmts(target_is_ship)), 1,
                      InitialState, ZeroMemory(1))}

run_quantum_counting_scan(targets) ==
    {DecodeScan(get_counts(m, n_counting_qubits)) :
        m \in RunFrom(transpile(ScanStmts(targets)), 1,
                      InitialState, ZeroMemory(n_counting_qubits))}

-----------------------------------------------------------------------------
(* The board (module level, lines 141-149 of app.py, 128-136 of war_room.py) *)

\* [f"{r}{c}" for r in ROWS for c in COLS]; a coord is the pair <<r, c>>
all_coords ==
    [k \in 1..(Len(ROWS) * Len(COLS)) |->
        <<ROWS[((k - 1) \div Len(COLS)) + 1], COLS[((k - 1) % Len(COLS)) + 1]>>]

\* {coord: (coord in ship_locations) for coord in all_coords}
BoardOf(ship_locations) == [coord \in Range(all_coords) |-> coord \in ship_locations]

\* random.sample(all_coords, SHIP_COUNT): the samples that fill one row, one
\* column or the diagonal
ShipSamples ==
    LET Lines == {{<<ROWS[r], COLS[c]>> : c \in DOMAIN COLS} : r \in DOMAIN ROWS}
                 \cup {{<<ROWS[r], COLS[c]>> : r \in DOMAIN ROWS} : c \in DOMAIN COLS}
                 \cup {{<<ROWS[d], COLS[d]>> : d \in DOMAIN ROWS}}
    IN  {S \in Lines : Cardinality(S) = SHIP_COUNT}

Sectors == Range(all_coords)
RowScanners == {<<"scan-row-", ROWS[k]>> : k \in DOMAIN ROWS}
ColScanners == {<<"scan-col-", COLS[k]>> : k \in DOMAIN COLS}
Buttons == Sectors \cup RowScanners \cup ColScanners

\* compose(): Button(coord, id=coord), Button(f"Scan Row {r}", id=f"scan-row-{r}"), ...
InitialLabel(b) ==
    IF b \in RowScanners THEN <<"Scan Row ", b[2]>>
    ELSE IF b \in ColScanners THEN <<"Scan Col ", b[2]>>
    ELSE b

\* The UI before it is mounted, on board `ships`.
UIStart(ships) ==
    /\ GAME_BOARD = BoardOf(ships)
    /\ disabled = {}
    /\ classes = [b \in Buttons |-> IF b \in Sectors THEN "" ELSE "scanner-button"]
    /\ label = [b \in Buttons |-> InitialLabel(b)]
    /\ log_lines = 0
    /\ boot_check = <<>>
    /\ engine_calls = [b \in Buttons |-> 0]

-----------------------------------------------------------------------------
(* Spec: one engine call, statement by statement *)

NoCircuit == QuantumCircuit(0, 0)

PingInputs == BOOLEAN
TargetLists(n) == UNION {[1..m -> BOOLEAN] : m \in 0..n}

EngineStart(f, a) ==
    /\ pc = "new"
    /\ fn = f
    /\ arg = a
    /\ qc = NoCircuit
    /\ tqc = <<>>
    /\ psi = InitialState
    /\ ip = 0
    /\ memory = <<>>
    /\ counts = <<>>
    /\ ret = "none"
    /\ history = <<>>

Init ==
    /\ \/ \E t \in PingInputs : EngineStart("ping", t)
       \/ \E targets \in TargetLists(MaxTargetLen) : EngineStart("scan", targets)
    /\ UIStart({all_coords[k] : k \in 1..SHIP_COUNT})

\* Append the next operation of `block`, which starts after `before`
\* operations of the circuit; with the block exhausted go on to `next`.
StepBlock(block, before, next) ==
    LET off == Len(qc.data) - before
    IN  IF off < Len(block)
        THEN /\ qc' = AppendOp(qc, block[off + 1])
             /\ pc' = pc
        ELSE /\ qc' = qc
             /\ pc' = next

\* qc = QuantumCircuit(2, 1)
PingNew ==
    /\ pc = "new" /\ fn = "ping"
    /\ qc' = QuantumCircuit(2, 1)
    /\ pc' = "ping_build"
    /\ UNCHANGED <<fn, arg, tqc, psi, ip, memory, counts, ret, history, uiVars>>

\* lines 32-41
PingBuild ==
    /\ pc = "ping_build"
    /\ StepBlock(PingStmts(arg), 0, "built")
    /\ UNCHANGED <<fn, arg, tqc, psi, ip, memory, counts, ret, history, uiVars>>

\* qc = QuantumCircuit(n_counting_qubits + n_target_qubits, n_counting_qubits)
\* and the computation of ship_indices, which may raise
ScanNew ==
    /\ pc = "new" /\ fn = "scan"
    /\ qc' = QuantumCircuit(n_counting_qubits + n_target_qubits, n_counting_qubits)
    /\ IF ShipIndexError(arg)
       THEN pc' = "raised" /\ ret' = "IndexError"
       ELSE pc' = "scan_x" /\ ret' = ret
    /\ UNCHANGED <<fn, arg, tqc, psi, ip, memory, counts, history, uiVars>>

ScanPrepareTargets ==
    /\ pc = "scan_x"
    /\ StepBlock(PrepareTargets(arg), 0, "scan_h")
    /\ UNCHANGED <<fn, arg, tqc, psi, ip, memory, counts, ret, history, uiVars>>

ScanPrepareCounting ==
    /\ pc = "scan_h"
    /\ StepBlock(PrepareCounting, Len(PrepareTargets(arg)), "scan_cp")
    /\ UNCHANGED <<fn, arg, tqc, psi, ip, memory, counts, ret, history, uiVars>>

ScanKickback ==
    /\ pc = "scan_cp"
    /\ StepBlock(Kickback(arg),
                 Len(PrepareTargets(arg)) + Len(PrepareCounting), "scan_iqft")
    /\ UNCHANGED <<fn, arg, tqc, psi, ip, memory, counts, ret, history, uiVars>>

ScanAppendIqft ==
    /\ pc = "scan_iqft"
    /\ StepBlock(AppendIqft,
                 Len(PrepareTargets(arg)) + Len(PrepareCounting) + Len(Kickback(arg)),
                 "scan_measure")
    /\ UNCHANGED <<fn, arg, tqc, psi, ip, memory, counts, ret, history, uiVars>>

ScanMeasure ==
    /\ pc = "scan_measure"
    /\ StepBlock(MeasureCounting,
                 Len(PrepareTargets(arg)) + Len(PrepareCounting) + Len(Kickback(arg))
                 + Len(AppendIqft),
                 "built")
    /\ UNCHANGED <<fn, arg, tqc, psi, ip, memory, counts, ret, history, uiVars>>

\* transpiled_qc = transpile(qc, simulator)
Transpile ==
    /\ pc = "built"
    /\ tqc' = transpile(qc.data)
    /\ pc' = "transpiled"
    /\ UNCHANGED <<fn, arg, qc, psi, ip, memory, counts, ret, history, uiVars>>

\* job = simulator.run(transpiled_qc, shots=1): the shot starts from |0...0>
SimStart ==
    /\ pc = "transpiled"
    /\ psi' = InitialState
    /\ memory' = ZeroMemory(qc.nc)
    /\ ip' = 1
    /\ pc' = "run"
    /\ UNCHANGED <<fn, arg, qc, tqc, counts, ret, history, uiVars>>

SimGate ==
    /\ pc = "run"
    /\ ip <= Len(tqc)
    /\ tqc[ip].gate # "measure"
    /\ psi' = ApplyGate(psi, tqc[ip])
    /\ ip' = ip + 1
    /\ UNCHANGED <<pc, fn, arg, qc, tqc, memory, counts, ret, history, uiVars>>

SimMeasure ==
    /\ pc = "run"
    /\ ip <= Len(tqc)
    /\ tqc[ip].gate = "measure"
    /\ \E r \in Outcomes(psi, tqc[ip].qubits[1]) :
          /\ psi' = Collapse(psi, tqc[ip].qubits[1], r)
          /\ memory' = [memory EXCEPT ![tqc[ip].clbit] = r]
    /\ ip' = ip + 1
    /\ UNCHANGED <<pc, fn, arg, qc, tqc, counts, ret, history, uiVars>>

\* counts = result.get_counts(transpiled_qc); list(counts.keys())[0]
GetCounts ==
    /\ pc = "run"
    /\ ip > Len(tqc)
    /\ counts' = get_counts(memory, qc.nc)
    /\ pc' = "counted"
    /\ UNCHANGED <<fn, arg, qc, tqc, psi, ip, memory, ret, history, uiVars>>

PingReturn ==
    /\ pc = "counted" /\ fn = "ping"
    /\ ret' = DecodePing(counts)
    /\ pc' = "done"
    /\ UNCHANGED <<fn, arg, qc, tqc, psi, ip, memory, counts, history, uiVars>>

ScanReturn ==
    /\ pc = "counted" /\ fn = "scan"
    /\ ret' = DecodeScan(counts)
    /\ pc' = "done"
    /\ UNCHANGED <<fn, arg, qc, tqc, psi, ip, memory, counts, history, uiVars>>

Next ==
    \/ PingNew
    \/ PingBuild
    \/ ScanNew
    \/ ScanPrepareTargets
    \/ ScanPrepareCounting
    \/ ScanKickback
    \/ ScanAppendIqft
    \/ ScanMeasure
    \/ Transpile
    \/ SimStart
    \/ SimGate
    \/ SimMeasure
    \/ GetCounts
    \/ PingReturn
    \/ ScanReturn

Spec == Init /\ [][Next]_vars

-----------------------------------------------------------------------------
(* Properties of one engine call (Spec) *)

NumTrue(targets) == Cardinality({i \in DOMAIN targets : targets[i]})

FourTargets == fn = "scan" /\ Len(arg) = n_target_qubits

\* C1: a counting scan of a 4-element target list returns exactly the number
\* of True entries, a value in 0..4 (and so 0, 1, 2, 3, 4 on the five lists
\* the claim names).
C1_ScanReturnsCount ==
    (pc = "done" /\ FourTargets) =>
        /\ ret = NumTrue(arg)
        /\ ret \in 0..4
        /\ (arg = <<FALSE, FALSE, FALSE, FALSE>> => ret = 0)
        /\ (arg = <<TRUE, FALSE, FALSE, FALSE>> => ret = 1)
        /\ (arg = <<FALSE, TRUE, FALSE, TRUE>> => ret = 2)
        /\ (arg = <<TRUE, TRUE, TRUE, FALSE>> => ret = 3)
        /\ (arg = <<TRUE, TRUE, TRUE, TRUE>> => ret = 4)

C1_Witness ==
    pc = "done" /\ fn = "scan" /\ arg = <<TRUE, TRUE, TRUE, FALSE>> /\ ret = 3

\* C2: the ping circuit has one possible measurement outcome, 0 for a false
\* target and 1 for a true one: when the probe is measured only that value
\* can come out, and it is the value returned.
C2_PingDeterministic ==
    fn = "ping" =>
        LET expected == IF arg THEN 1 ELSE 0
        IN  /\ (pc = "run" /\ ip <= Len(tqc) /\ tqc[ip].gate = "measure")
                => Outcomes(psi, tqc[ip].qubits[1]) = {expected}
            /\ (pc = "run" /\ ip > Len(tqc)) => memory[0] = expected
            /\ pc = "done" => ret = expected

C2_Witness == pc = "done" /\ fn = "ping" /\ arg = TRUE /\ ret = 1

\* the memory written in qubit-index order: character k is classical bit k
QubitOrderKey(mem, nc) == [p \in 1..nc |-> IF mem[p - 1] = 1 THEN "1" ELSE "0"]

\* C3 (as claimed): with the result string in qubit-index order (classical
\* bit 0 first), reversing it and reading it as binary gives the number of
\* marked targets.
C3_QubitOrderDecodes ==
    (pc = "counted" /\ FourTargets) =>
        DecodeScan(QubitOrderKey(memory, qc.nc)) = NumTrue(arg)

\* C3 (amended): the result string holds classical bit 0 as its last
\* character (character k is classical bit 2-k); reversing it and reading it
\* as binary gives the number of marked targets.
C3_Bit0LastDecodes ==
    (pc = "counted" /\ FourTargets) =>
        /\ Len(counts) = n_counting_qubits
        /\ \A p \in 1..Len(counts) :
              counts[p] = (IF memory[n_counting_qubits - p] = 1 THEN "1" ELSE "0")
        /\ PyInt(Reversed(counts), 2) = NumTrue(arg)

C3_Witness ==
    /\ pc = "counted" /\ fn = "scan"
    /\ arg = <<TRUE, FALSE, FALSE, FALSE>>
    /\ counts = <<"1", "0", "0">>

\* C4 (as claimed): a counting scan of a list whose length is not 4 is
\* rejected with InvalidTargetCount: its circuit never reaches the backend
\* and no count is returned.
C4_WrongLengthRejected ==
    (fn = "scan" /\ Len(arg) # n_target_qubits) =>
        /\ pc \notin {"transpiled", "run", "counted"}
        /\ pc \in {"done", "raised"} => ret = "InvalidTargetCount"

\* the unitary part of the transpiled circuit has been applied
AfterIqft ==
    /\ pc = "run"
    /\ \A n \in ip..Len(tqc) : tqc[n].gate \in {"barrier", "measure"}

\* C7: after the inverse Fourier sub-circuit the counting register is in one
\* basis state, counting qubit k holding binary digit 2-k of the number m of
\* marked targets, and each measurement writes that digit into classical
\* bit k, no other outcome being possible.
C7_CountingRegisterHoldsCount ==
    (FourTargets /\ AfterIqft) =>
        LET m == NumTrue(arg)
        IN  /\ Cardinality(DOMAIN psi) = 1
            /\ \A b \in DOMAIN psi : \A q \in 0..(n_counting_qubits - 1) :
                  Bit(b, q) = Bit(m, n_counting_qubits - 1 - q)
            /\ \A n \in 1..Len(tqc) :
                  tqc[n].gate = "measure" =>
                      IF n < ip
                      THEN memory[tqc[n].clbit]
                             = Bit(m, n_counting_qubits - 1 - tqc[n].clbit)
                      ELSE /\ tqc[n].clbit = tqc[n].qubits[1]
                           /\ Outcomes(psi, tqc[n].qubits[1])
                                = {Bit(m, n_counting_qubits - 1 - tqc[n].qubits[1])}

C7_Witness ==
    /\ AfterIqft /\ fn = "scan" /\ ip > Len(tqc)
    /\ arg = <<TRUE, TRUE, TRUE, FALSE>>
    /\ memory[0] = 0 /\ memory[1] = 1 /\ memory[2] = 1

\* the positions of the circuit holding a rotation with control c, target t
Rotations(c, t) ==
    {n \in DOMAIN qc.data : qc.data[n].gate = "cp" /\ qc.data[n].qubits = <<c, t>>}

\* the simulator stands at the barrier that ends the kickback step
AtKickbackEnd ==
    /\ pc = "run" /\ ip <= Len(tqc)
    /\ tqc[ip].gate = "barrier"
    /\ \A n \in 1..(ip - 1) : tqc[n].gate # "barrier"

\* the basis state of the target register for a target list
TargetBits(targets) ==
    LET RECURSIVE Sum(_)
        Sum(i) == IF i > Len(targets) THEN 0
                  ELSE (IF targets[i] THEN 2 ^ target_register[i] ELSE 0) + Sum(i + 1)
    IN  Sum(1)

\* C8: the kickback step appends exactly one ControlledPhase per (counting
\* qubit c, marked target), none for an unmarked target, with angle
\* 2^(2-c) * pi/4: 3*m gates for m marked targets; and the phase it leaves on
\* counting qubit c is m * 2^(2-c) units of pi/4, modulo 8.
C8_KickbackEncodesCount ==
    FourTargets =>
        LET m == NumTrue(arg)
            PhaseOf(c) == (m * 2 ^ (n_counting_qubits - 1 - c)) % 8
        IN  /\ pc \in {"scan_iqft", "scan_measure", "built"} =>
                /\ \A c \in 0..(n_counting_qubits - 1) :
                     \A i \in 1..n_target_qubits :
                        /\ Cardinality(Rotations(c, target_register[i]))
                             = (IF arg[i] THEN 1 ELSE 0)
                        /\ \A n \in Rotations(c, target_register[i]) :
                              qc.data[n].angle.num * 4
                                = (2 ^ (n_counting_qubits - 1 - c)) * qc.data[n].angle.den
                /\ Cardinality({n \in DOMAIN qc.data : qc.data[n].gate = "cp"}) = 3 * m
            /\ AtKickbackEnd =>
                /\ DOMAIN psi = {TargetBits(arg) + x : x \in 0..(2 ^ n_counting_qubits - 1)}
                /\ \A b \in DOMAIN psi :
                      psi[b] = MulOmegaPow(One,
                                  (  Bit(b, 0) * PhaseOf(0)
                                   + Bit(b, 1) * PhaseOf(1)
                                   + Bit(b, 2) * PhaseOf(2)) % 8)

C8_Witness ==
    /\ AtKickbackEnd /\ fn = "scan"
    /\ arg = <<TRUE, TRUE, TRUE, FALSE>>
    /\ Cardinality({n \in DOMAIN qc.data : qc.data[n].gate = "cp"}) = 9
    /\ psi[TargetBits(arg) + 4] = MulOmegaPow(One, 3)

IsPrefix(s, t) == Len(s) <= Len(t) /\ SubSeq(t, 1, Len(s)) = s

MeasuredAt(data) == {n \in DOMAIN data : data[n].gate = "measure"}

\* indices in range, one measurement per qubit, nothing after a measurement
WellFormed(circ) ==
    /\ \A n \in DOMAIN circ.data :
          LET op == circ.data[n]
          IN  /\ \A k \in DOMAIN op.qubits : op.qubits[k] \in 0..(circ.nq - 1)
              /\ op.gate = "measure" => op.clbit \in 0..(circ.nc - 1)
              /\ \A d \in DOMAIN op.def :
                    /\ op.def[d].gate # "measure"
                    /\ \A k \in DOMAIN op.def[d].qubits :
                          op.def[d].qubits[k] \in 0..(Len(op.qubits) - 1)
    /\ \A n1, n2 \in MeasuredAt(circ.data) :
          circ.data[n1].qubits = circ.data[n2].qubits => n1 = n2
    /\ \A n1 \in MeasuredAt(circ.data) : \A n2 \in DOMAIN circ.data :
          n2 > n1 => circ.data[n1].qubits[1] \notin Range(circ.data[n2].qubits)

DeclaredSize ==
    pc # "new" =>
        /\ fn = "ping" => (qc.nq = 2 /\ qc.nc = 1)
        /\ fn = "scan" => (qc.nq = 7 /\ qc.nc = 3)

AppendOnly ==
    pc # "new" =>
        /\ qc'.nq = qc.nq /\ qc'.nc = qc.nc
        /\ IsPrefix(qc.data, qc'.data)
        /\ Len(qc'.data) <= Len(qc.data) + 1

\* C9: all through the construction of the ping circuit (2 qubits, 1 bit)
\* and of the counting-scan circuit (7 qubits, 3 bits), every qubit and
\* classical-bit index an appended operation names is below the declared
\* size, operations are only appended, a qubit is measured at most once and
\* nothing is appended on a qubit after its measurement.
C9_CircuitWellFormed ==
    /\ [](DeclaredSize /\ WellFormed(qc))
    /\ [][AppendOnly]_vars

C9_Witness ==
    /\ pc = "built" /\ fn = "scan"
    /\ arg = <<TRUE, TRUE, TRUE, TRUE>>
    /\ Len(qc.data) = 25
    /\ qc.data[25] = Measure(2, 2)

-----------------------------------------------------------------------------
(* SpecIqft: iqft_gate(n_qubits) built operation by operation *)

InitIqft ==
    /\ pc = "new" /\ fn = "iqft"
    /\ arg \in 1..MaxN
    /\ qc = NoCircuit
    /\ tqc = <<>> /\ psi = InitialState /\ ip = 0 /\ memory = <<>>
    /\ counts = <<>> /\ ret = "none" /\ history = <<>>
    /\ UIStart({all_coords[k] : k \in 1..SHIP_COUNT})

\* qc = QuantumCircuit(n_qubits, name="IQFT")
IqftNew ==
    /\ pc = "new" /\ fn = "iqft"
    /\ qc' = QuantumCircuit(arg, 0)
    /\ pc' = "iqft_swap"
    /\ UNCHANGED <<fn, arg, tqc, psi, ip, memory, counts, ret, history, uiVars>>

\* swap_qubits(qc, n_qubits)
IqftSwap ==
    /\ pc = "iqft_swap"
    /\ StepBlock(swap_qubits(arg), 0, "iqft_rotate")
    /\ UNCHANGED <<fn, arg, tqc, psi, ip, memory, counts, ret, history, uiVars>>

\* the double loop of lines 67-71
IqftRotate ==
    /\ pc = "iqft_rotate"
    /\ StepBlock(IqftOuter(arg - 1, arg), Len(swap_qubits(arg)), "iqft_return")
    /\ UNCHANGED <<fn, arg, tqc, psi, ip, memory, counts, ret, history, uiVars>>

\* return qc
IqftReturn ==
    /\ pc = "iqft_return"
    /\ ret' = qc.data
    /\ pc' = "done"
    /\ UNCHANGED <<fn, arg, qc, tqc, psi, ip, memory, counts, history, uiVars>>

NextIqft == IqftNew \/ IqftSwap \/ IqftRotate \/ IqftReturn

SpecIqft == InitIqft /\ [][NextIqft]_vars

\* the positions of a gate list holding a gate of one kind
GatesAt(data, gate) == {p \in DOMAIN data : data[p].gate = gate}

\* C6: iqft_gate(n) emits Swap(i, n-1-i) for i = 0 .. n/2 - 1, then for i from
\* n-1 down to 0 the ControlledPhase(control j, target i, angle -pi/2^(j-i))
\* for j from n-1 down to i+1 followed by Hadamard(i); so the swaps come
\* first, the Hadamard on i comes after every rotation targeting i and before
\* every rotation i controls, and there are n/2 + n(n-1)/2 + n gates, none a
\* measurement.
C6_IqftGateSequence ==
    fn = "iqft" =>
        LET n == arg
            s == n \div 2
            data == qc.data
        IN  /\ \A p \in GatesAt(data, "swap") :
                  \A r \in GatesAt(data, "cp") \cup GatesAt(data, "h") : p < r
            /\ \A h \in GatesAt(data, "h") : \A r \in GatesAt(data, "cp") :
                  /\ data[r].qubits[2] = data[h].qubits[1] => r < h
                  /\ data[r].qubits[1] = data[h].qubits[1] => h < r
            /\ GatesAt(data, "measure") = {}
            /\ pc = "done" =>
                /\ Len(ret) = s + (n * (n - 1)) \div 2 + n
                /\ \A i \in 0..(s - 1) : ret[i + 1] = SwapGate(i, n - 1 - i)
                /\ \A i \in 0..(n - 1) :
                      LET D == n - 1 - i
                          base == s + (D * (D + 1)) \div 2
                      IN  /\ \A t \in 1..D :
                                LET j == n - t
                                    op == ret[base + t]
                                IN  /\ op.gate = "cp"
                                    /\ op.qubits = <<j, i>>
                                    /\ op.angle.den > 0
                                    /\ op.angle.num * (2 ^ (j - i)) = -op.angle.den
                          /\ ret[base + D + 1] = HGate(i)

C6_Witness ==
    /\ pc = "done" /\ fn = "iqft" /\ arg = 3
    /\ Len(ret) = 7
    /\ ret[1] = SwapGate(0, 2)
    /\ ret[5] = CPGate(Angle(-1, 4), 2, 0)
    /\ ret[6] = CPGate(Angle(-1, 2), 1, 0)
    /\ ret[7] = HGate(0)

-----------------------------------------------------------------------------
(* SpecCalls: engine calls made by several callers, one after the other    *)
(* and interleaved.  A call's steps are its construction of the circuit,   *)
(* the execution of the circuit by the backend, and its return; pc, fn,    *)
(* arg, qc and counts are the call's local variables, one set per caller.  *)

Callers == {"api", "tui"}

\* the variable left by the caller's previous call, not discarded
LeftoverCircuit(c, nq, nc) == [nq |-> nq, nc |-> nc, data |-> qc[c].data]

\* qc = QuantumCircuit(nq, nc) in a call of caller c
FreshCircuit(c, nq, nc) == QuantumCircuit(nq, nc)

Started == Len(history) + Cardinality({c \in Callers : pc[c] # "idle"})

InitCalls ==
    /\ pc = [c \in Callers |-> "idle"]
    /\ fn = [c \in Callers |-> "none"]
    /\ arg = [c \in Callers |-> <<>>]
    /\ qc = [c \in Callers |-> NoCircuit]
    /\ counts = [c \in Callers |-> <<>>]
    /\ tqc = <<>> /\ psi = InitialState /\ ip = 0 /\ memory = <<>>
    /\ ret = "none" /\ history = <<>>
    /\ UIStart({all_coords[k] : k \in 1..SHIP_COUNT})

\* run_quantum_sonar_ping, lines 29-41
CallPing(c) ==
    /\ pc[c] = "idle"
    /\ Started < MaxCalls
    /\ \E t \in PingInputs :
          /\ fn' = [fn EXCEPT ![c] = "ping"]
          /\ arg' = [arg EXCEPT ![c] = t]
          /\ qc' = [qc EXCEPT ![c] =
                       [FreshCircuit(c, 2, 1) EXCEPT !.data = @ \o PingStmts(t)]]
    /\ pc' = [pc EXCEPT ![c] = "built"]
    /\ UNCHANGED <<tqc, psi, ip, memory, counts, ret, history, uiVars>>

\* run_quantum_counting_scan, lines 89-126
CallScan(c) ==
    /\ pc[c] = "idle"
    /\ Started < MaxCalls
    /\ \E targets \in [1..n_target_qubits -> BOOLEAN] :
          /\ fn' = [fn EXCEPT ![c] = "scan"]
          /\ arg' = [arg EXCEPT ![c] = targets]
          /\ qc' = [qc EXCEPT ![c] =
                       [FreshCircuit(c, n_counting_qubits + n_target_qubits,
                                     n_counting_qubits)
                           EXCEPT !.data = @ \o ScanStmts(targets)]]
    /\ pc' = [pc EXCEPT ![c] = "built"]
    /\ UNCHANGED <<tqc, psi, ip, memory, counts, ret, history, uiVars>>

\* simulator = AerSimulator(); transpile; run(shots=1); get_counts
Execute(c) ==
    /\ pc[c] = "built"
    /\ \E m \in RunFrom(transpile(qc[c].data), 1, InitialState, ZeroMemory(qc[c].nc)) :
          counts' = [counts EXCEPT ![c] = get_counts(m, qc[c].nc)]
    /\ pc' = [pc EXCEPT ![c] = "ran"]
    /\ UNCHANGED <<fn, arg, qc, tqc, psi, ip, memory, ret, history, uiVars>>

\* return measurement_outcome / integer_count
CallReturn(c) ==
    /\ pc[c] = "ran"
    /\ history' = Append(history,
          [fn |-> fn[c], arg |-> arg[c],
           ret |-> IF fn[c] = "ping" THEN DecodePing(counts[c])
                   ELSE DecodeScan(counts[c])])
    /\ pc' = [pc EXCEPT ![c] = "idle"]
    /\ UNCHANGED <<fn, arg, qc, tqc, psi, ip, memory, counts, ret, uiVars>>

NextCalls ==
    \E c \in Callers :
        \/ CallPing(c)
        \/ CallScan(c)
        \/ Execute(c)
        \/ CallReturn(c)

SpecCalls == InitCalls /\ [][NextCalls]_vars

\* C5: the result of a call is a function of its argument alone: whatever
\* ran before it or runs beside it, the circuit a call submits is the one
\* its own argument gives, and two calls with the same input return the
\* same output.
C5_CallsIndependent ==
    /\ \A c \in Callers :
          pc[c] = "built" =>
              qc[c].data = (IF fn[c] = "ping" THEN PingStmts(arg[c])
                            ELSE ScanStmts(arg[c]))
    /\ \A a, b \in DOMAIN history :
          (history[a].fn = history[b].fn /\ history[a].arg = history[b].arg)
              => history[a].ret = history[b].ret

C5_Witness ==
    /\ Len(history) = 2
    /\ history[1] = [fn |-> "scan", arg |-> <<TRUE, FALSE, FALSE, FALSE>>, ret |-> 1]
    /\ history[2] = history[1]

-----------------------------------------------------------------------------
(* SpecUI: the terminal UI (QuantumWarRoomApp) *)

\* what one call of each engine can return, per argument
PingTable == [t \in BOOLEAN |-> run_quantum_sonar_ping(t)]
ScanTable == [targets \in [1..n_target_qubits -> BOOLEAN] |->
                 run_quantum_counting_scan(targets)]

InitUI ==
    /\ pc = "unmounted" /\ fn = "none" /\ arg = <<>>
    /\ qc = NoCircuit
    /\ tqc = <<>> /\ psi = InitialState /\ ip = 0 /\ memory = <<>>
    /\ counts = <<>> /\ ret = "none" /\ history = <<>>
    /\ \E ships \in ShipSamples : UIStart(ships)

\* the boot check: two pings, two counting scans, eight log lines
on_mount ==
    /\ pc = "unmounted"
    /\ \E result_water \in PingTable[FALSE], result_ship \in PingTable[TRUE],
          count \in ScanTable[<<FALSE, TRUE, FALSE, TRUE>>],
          count_3 \in ScanTable[<<TRUE, TRUE, TRUE, FALSE>>] :
          boot_check' = <<result_water, result_ship, count, count_3>>
    /\ log_lines' = log_lines + 8
    /\ pc' = "mounted"
    /\ UNCHANGED <<fn, arg, qc, tqc, psi, ip, memory, counts, ret, history,
                   GAME_BOARD, disabled, classes, label, engine_calls>>

\* GAME_BOARD.get(button_id, False)
BoardGet(button_id) ==
    IF button_id \in DOMAIN GAME_BOARD THEN GAME_BOARD[button_id] ELSE FALSE

\* the handler without its last line, event.button.disabled = True
handle_single_ping_stays_enabled(b) ==
    /\ \E measurement \in PingTable[BoardGet(b)] :
          IF measurement = 1
          THEN /\ classes' = [classes EXCEPT ![b] = "sector-ship"]
               /\ label' = [label EXCEPT ![b] = <<"SHIP">>]
          ELSE /\ classes' = [classes EXCEPT ![b] = "sector-clear"]
               /\ label' = label
    /\ engine_calls' = [engine_calls EXCEPT ![b] = @ + 1]
    /\ log_lines' = log_lines + 2
    /\ UNCHANGED <<disabled, GAME_BOARD, boot_check>>

handle_single_ping(b) ==
    /\ \E measurement \in PingTable[BoardGet(b)] :
          IF measurement = 1
          THEN /\ classes' = [classes EXCEPT ![b] = "sector-ship"]
               /\ label' = [label EXCEPT ![b] = <<"SHIP">>]
          ELSE /\ classes' = [classes EXCEPT ![b] = "sector-clear"]
               /\ label' = label
    /\ engine_calls' = [engine_calls EXCEPT ![b] = @ + 1]
    /\ log_lines' = log_lines + 2
    /\ disabled' = disabled \cup {b}
    /\ UNCHANGED <<GAME_BOARD, boot_check>>

\* button_id[-1]
LastOf(button_id) == button_id[Len(button_id)]

\* the list of 4 targets of a row or column scanner
TargetsToScan(button_id) ==
    IF button_id[1] = "scan-row-"
    THEN [k \in DOMAIN COLS |-> GAME_BOARD[<<LastOf(button_id), COLS[k]>>]]
    ELSE IF button_id[1] = "scan-col-"
    THEN [k \in DOMAIN ROWS |-> GAME_BOARD[<<ROWS[k], LastOf(button_id)>>]]
    ELSE <<>>

handle_scanner_press(b) ==
    /\ \E count \in ScanTable[TargetsToScan(b)] :
          label' = [label EXCEPT ![b] = <<"SHIPS: ", count>>]
    /\ classes' = [classes EXCEPT ![b] = "scanner-used"]
    /\ engine_calls' = [engine_calls EXCEPT ![b] = @ + 1]
    /\ log_lines' = log_lines + 3
    /\ disabled' = disabled \cup {b}
    /\ UNCHANGED <<GAME_BOARD, boot_check>>

\* A Button.Pressed event reaches the app for a button that is not disabled
\* (Textual's Button.press returns at once on a disabled button); the
\* handler runs to its end before the next event is taken.
on_button_pressed(b) ==
    /\ pc = "mounted"
    /\ b \notin disabled
    /\ Cardinality(disabled) < MaxPresses
    /\ \/ /\ b[1] \in {"scan-row-", "scan-col-"}
          /\ handle_scanner_press(b)
       \/ /\ b[1] \notin {"scan-row-", "scan-col-"}
          /\ Len(b) = 2
          /\ handle_single_ping(b)
    /\ UNCHANGED engineVars

NextUI ==
    \/ on_mount
    \/ \E b \in Buttons : on_button_pressed(b)

SpecUI == InitUI /\ [][NextUI]_vars

CallsAndDisabled ==
    /\ disabled \subseteq Buttons
    /\ \A b \in Buttons :
          /\ engine_calls[b] <= 1
          /\ engine_calls[b] = 1 <=> b \in disabled
    /\ Cardinality({b \in Sectors : engine_calls[b] > 0}) <= 16
    /\ Cardinality({b \in Buttons \ Sectors : engine_calls[b] > 0}) <= 8
    /\ Cardinality(Sectors) = 16 /\ Cardinality(Buttons) = 24

HandlerStep ==
    /\ GAME_BOARD' = GAME_BOARD
    /\ disabled \subseteq disabled'
    /\ \A b \in Buttons :
          engine_calls'[b] # engine_calls[b] =>
              /\ engine_calls'[b] = engine_calls[b] + 1
              /\ b \notin disabled
              /\ b \in disabled'

\* C10: a handled press on a sector or scanner button ends with that button
\* disabled, and no handler re-enables a button or changes GAME_BOARD; so a
\* sector is pinged at most once, a scanner is used at most once, and the
\* handlers make at most 24 engine calls.
C10_ButtonsUsedOnce ==
    /\ []CallsAndDisabled
    /\ [][HandlerStep]_vars

C10_Witness ==
    /\ pc = "mounted"
    /\ {<<"A", "1">>, <<"scan-row-", "A">>, <<"scan-col-", "1">>} \subseteq disabled
    /\ engine_calls[<<"A", "1">>] = 1
    /\ engine_calls[<<"scan-row-", "A">>] = 1
    /\ label[<<"scan-row-", "A">>] = <<"SHIPS: ", 4>>

====
